---- MODULE Spec2Model ----
(***************************************************************************)
(* Model of the vector store of rag-pubmed: VectorStore (FAISS flat L2     *)
(* index + insertion-ordered documents dict + two persisted artifacts),    *)
(* DocumentService.ingest_documents / retrieve_documents on top of it.     *)
(*                                                                         *)
(* Representation                                                          *)
(*   - an embedding is a sequence of integers; None is the empty sequence  *)
(*   - the FAISS index is [d, xb]: its dimension and its vectors in        *)
(*     insertion order (ntotal = Len(xb))                                  *)
(*   - the Python dict self.documents is the pair docKeys (keys in         *)
(*     insertion order) and docVal (key -> stored dict)                    *)
(*   - a stored dict is [content, score]; score is NoScore until           *)
(*     retrieve_documents writes 'similarity_score' into it                *)
(*   - an artifact on disk is [state, data], state in missing/corrupt/ok   *)
(*   - rawDocs is the set of ids with a reference copy <id>.json under    *)
(*     RAW_DOCUMENTS_PATH                                                  *)
(*   - origin / diskOrigin are history variables: the id of the document   *)
(*     whose embedding was the i-th vector inserted                        *)
(*   - loop is the asyncio event loop of the API process: the coroutine    *)
(*     it is running and the locals of the two route handlers              *)
(*   - response is the HTTP response of the last request                   *)
(*   - script is the VectorStore of a run of the load_pubmed_data script,  *)
(*     a second process on the same store_path                             *)
(***************************************************************************)
EXTENDS Integers, Sequences, FiniteSets, TLC

VARIABLES dimension, index, origin, docKeys, docVal,
          diskIndex, diskDocs, diskOrigin, rawDocs, uuidNext, faults, last,
          loop, response, script

vars == <<dimension, index, origin, docKeys, docVal,
          diskIndex, diskDocs, diskOrigin, rawDocs, uuidNext, faults, last,
          loop, response, script>>

storeVars == <<index, origin, docKeys, docVal>>
diskVars == <<diskIndex, diskDocs, diskOrigin>>
apiVars == <<loop, response, script>>

(***************************************************************************)
(* Bounds                                                                  *)
(***************************************************************************)
MaxDocs == 2
MaxBatch == 2
MaxUuid == 2
MaxCoord == 1
MaxK == 2
MaxFaults == 1
MaxText == 2

TOP_K_RETRIEVAL == 2

Dims == {2}
CallerIds == {"a"}
Uuid(n) == IF n = 1 THEN "u1" ELSE IF n = 2 THEN "u2" ELSE IF n = 3 THEN "u3" ELSE "u4"
Uuids == {Uuid(n) : n \in 1..MaxUuid}
NoId == ""
Contents == 0..MaxCoord
Queries == {0}
None == <<>>
NoScore == -1

Range(s) == {s[i] : i \in 1..Len(s)}
Min(a, b) == IF a < b THEN a ELSE b

(***************************************************************************)
(* EmbeddingService.get_embeddings: the model maps a text to a vector of   *)
(* the service's dimension; text c is embedded on the diagonal.            *)
(***************************************************************************)
get_embeddings(c, d) == [j \in 1..d |-> c]

(***************************************************************************)
(* faiss.IndexFlatL2                                                       *)
(***************************************************************************)
IndexFlatL2(d) == [d |-> d, xb |-> <<>>]

ntotal(idx) == Len(idx.xb)

RECURSIVE SumSq(_, _, _)
SumSq(x, y, j) ==
  IF j = 0 THEN 0 ELSE (x[j] - y[j]) * (x[j] - y[j]) + SumSq(x, y, j - 1)

L2(x, y) == SumSq(x, y, Len(x))

\* ordinals (1-based here, 0-based in FAISS) that precede ordinal i in the
\* result order: smaller distance first, lower ordinal first among equals
Before(idx, q, i) ==
  {j \in 1..ntotal(idx) :
     \/ L2(idx.xb[j], q) < L2(idx.xb[i], q)
     \/ L2(idx.xb[j], q) = L2(idx.xb[i], q) /\ j < i}

\* index.search(q, kk) for 1 <= kk <= ntotal: kk pairs [pos, dist]
index_search(idx, q, kk) ==
  [r \in 1..kk |->
     LET i == CHOOSE i \in 1..ntotal(idx) : Cardinality(Before(idx, q, i)) = r - 1
     IN  [pos |-> i, dist |-> L2(idx.xb[i], q)]]

(***************************************************************************)
(* Serialisation of the two artifacts                                      *)
(***************************************************************************)
RECURSIVE Flatten(_)
Flatten(xs) == IF xs = <<>> THEN <<>> ELSE Head(xs) \o Flatten(Tail(xs))

\* faiss.write_index: d, ntotal and the vectors as one flat array
write_index(idx) == [d |-> idx.d, ntotal |-> ntotal(idx), codes |-> Flatten(idx.xb)]

read_index(art) ==
  [d |-> art.d,
   xb |-> [i \in 1..art.ntotal |-> [j \in 1..art.d |-> art.codes[(i - 1) * art.d + j]]]]

\* a dump that does not keep the insertion order of the items
pickle_dump_unordered(keys, val) ==
  [i \in 1..Len(keys) |-> <<keys[Len(keys) + 1 - i], val[keys[Len(keys) + 1 - i]]>>]

\* pickle.dump of a dict: its items in insertion order
pickle_dump(keys, val) == [i \in 1..Len(keys) |-> <<keys[i], val[keys[i]]>>]

pickle_load_keys(items) == [i \in 1..Len(items) |-> items[i][1]]
pickle_load_val(items) ==
  [k \in {items[i][1] : i \in 1..Len(items)} |->
     LET i == CHOOSE i \in 1..Len(items) : items[i][1] = k IN items[i][2]]

EmptyIndexArtifact == [d |-> 0, ntotal |-> 0, codes |-> <<>>]
Missing(data) == [state |-> "missing", data |-> data]
Corrupt(data) == [state |-> "corrupt", data |-> data]
Ok(data) == [state |-> "ok", data |-> data]

(***************************************************************************)
(* VectorStore                                                             *)
(***************************************************************************)
\* _create_new_index
_create_new_index(dim) ==
  [index |-> IndexFlatL2(dim), origin |-> <<>>, docKeys |-> <<>>, docVal |-> <<>>]

\* an _initialize_store whose exception handler resets only the documents:
\* an index that was read stays when the documents fail to load
_initialize_store_keeps_index(dim, dIdx, dDocs, dOrg) ==
  IF dIdx.state # "missing" /\ dDocs.state # "missing"
  THEN IF dIdx.state = "ok" /\ dDocs.state = "ok"
       THEN [index |-> read_index(dIdx.data), origin |-> dOrg,
             docKeys |-> pickle_load_keys(dDocs.data),
             docVal |-> pickle_load_val(dDocs.data)]
       ELSE IF dIdx.state = "ok"
       THEN [index |-> read_index(dIdx.data), origin |-> dOrg,
             docKeys |-> <<>>, docVal |-> <<>>]
       ELSE _create_new_index(dim)
  ELSE _create_new_index(dim)

\* _initialize_store: both artifacts must exist; a failure to read either
\* one discards what was read and creates a new index
_initialize_store(dim, dIdx, dDocs, dOrg) ==
  IF dIdx.state # "missing" /\ dDocs.state # "missing"
  THEN IF dIdx.state = "ok" /\ dDocs.state = "ok"
       THEN [index |-> read_index(dIdx.data), origin |-> dOrg,
             docKeys |-> pickle_load_keys(dDocs.data),
             docVal |-> pickle_load_val(dDocs.data)]
       ELSE _create_new_index(dim)
  ELSE _create_new_index(dim)

\* self.documents[doc.id] = doc_copy: an existing key keeps its position
DictPut(d, id, v) ==
  [keys |-> IF id \in Range(d.keys) THEN d.keys ELSE Append(d.keys, id),
   val |-> [k \in (DOMAIN d.val) \cup {id} |-> IF k = id THEN v ELSE d.val[k]]]

\* doc.dict() without 'embedding'
doc_copy(doc) == [content |-> doc.content, score |-> NoScore]

\* the loop of add_documents over the documents that have an embedding
RECURSIVE PutAll(_, _)
PutAll(d, docs) ==
  IF docs = <<>> THEN d
  ELSE PutAll(DictPut(d, Head(docs).id, doc_copy(Head(docs))), Tail(docs))

WithEmbedding(docs) == SelectSeq(docs, LAMBDA doc : doc.embedding # None)

\* np.array(embeddings).astype('float32') needs rows of one length, and
\* index.add asserts that this length is the index's d
Addable(idx, embs) == \A i \in 1..Len(embs) : Len(embs[i]) = idx.d

SaveOutcomes == {"ok", "index_open_fails", "index_write_fails",
                 "docs_open_fails", "docs_write_fails"}

\* _save: the index artifact is written first, then the documents artifact;
\* an exception is logged and swallowed.  A failed open leaves the file as
\* it was, a failed write leaves an unreadable file.
_save(st, dIdx, dDocs, dOrg, outcome) ==
  LET newIdx == Ok(write_index(st.index))
      newDocs == Ok(pickle_dump(st.docKeys, st.docVal))
  IN  CASE outcome = "ok" ->
             [diskIndex |-> newIdx, diskDocs |-> newDocs, diskOrigin |-> st.origin]
        [] outcome = "index_open_fails" ->
             [diskIndex |-> dIdx, diskDocs |-> dDocs, diskOrigin |-> dOrg]
        [] outcome = "index_write_fails" ->
             [diskIndex |-> Corrupt(EmptyIndexArtifact), diskDocs |-> dDocs,
              diskOrigin |-> <<>>]
        [] outcome = "docs_open_fails" ->
             [diskIndex |-> newIdx, diskDocs |-> dDocs, diskOrigin |-> st.origin]
        [] outcome = "docs_write_fails" ->
             [diskIndex |-> newIdx, diskDocs |-> Corrupt(<<>>), diskOrigin |-> st.origin]

Store == [index |-> index, origin |-> origin, docKeys |-> docKeys, docVal |-> docVal]
Disk == [diskIndex |-> diskIndex, diskDocs |-> diskDocs, diskOrigin |-> diskOrigin]

\* an add_documents without the two early returns: _save is reached even
\* when there is nothing to add
add_documents_always_saves(st, dk, docs, outcome) ==
  LET kept == WithEmbedding(docs)
      embs == [i \in 1..Len(kept) |-> kept[i].embedding]
      ids == [i \in 1..Len(kept) |-> kept[i].id]
      put == PutAll([keys |-> st.docKeys, val |-> st.docVal], kept)
      mid == [st EXCEPT !.docKeys = put.keys, !.docVal = put.val]
      new == [mid EXCEPT !.index.xb = st.index.xb \o embs, !.origin = st.origin \o ids]
  IN  IF ~Addable(st.index, embs)
      THEN [store |-> mid, disk |-> dk, raised |-> TRUE, saving |-> FALSE, ids |-> <<>>]
      ELSE [store |-> new,
            disk |-> _save(new, dk.diskIndex, dk.diskDocs, dk.diskOrigin, outcome),
            raised |-> FALSE, saving |-> TRUE, ids |-> ids]

\* an add_documents in which a failing _save raises and the batch is taken
\* back out of memory
add_documents_rollback(st, dk, docs, outcome) ==
  LET kept == WithEmbedding(docs)
      embs == [i \in 1..Len(kept) |-> kept[i].embedding]
      ids == [i \in 1..Len(kept) |-> kept[i].id]
      put == PutAll([keys |-> st.docKeys, val |-> st.docVal], kept)
      mid == [st EXCEPT !.docKeys = put.keys, !.docVal = put.val]
      new == [mid EXCEPT !.index.xb = st.index.xb \o embs, !.origin = st.origin \o ids]
  IN  IF docs = <<>> \/ kept = <<>>
      THEN [store |-> mid, disk |-> dk, raised |-> FALSE, saving |-> FALSE, ids |-> <<>>]
      ELSE IF ~Addable(st.index, embs)
      THEN [store |-> mid, disk |-> dk, raised |-> TRUE, saving |-> FALSE, ids |-> <<>>]
      ELSE IF outcome # "ok"
      THEN [store |-> st,
            disk |-> _save(new, dk.diskIndex, dk.diskDocs, dk.diskOrigin, outcome),
            raised |-> TRUE, saving |-> TRUE, ids |-> <<>>]
      ELSE [store |-> new,
            disk |-> _save(new, dk.diskIndex, dk.diskDocs, dk.diskOrigin, outcome),
            raised |-> FALSE, saving |-> TRUE, ids |-> ids]

\* an add_documents whose _save persists the batch on top of what the disk
\* already holds instead of the whole in-memory store
add_documents_saves_batch_only(st, dk, docs, outcome) ==
  LET kept == WithEmbedding(docs)
      embs == [i \in 1..Len(kept) |-> kept[i].embedding]
      ids == [i \in 1..Len(kept) |-> kept[i].id]
      put == PutAll([keys |-> st.docKeys, val |-> st.docVal], kept)
      mid == [st EXCEPT !.docKeys = put.keys, !.docVal = put.val]
      new == [mid EXCEPT !.index.xb = st.index.xb \o embs, !.origin = st.origin \o ids]
      base == _initialize_store(st.index.d, dk.diskIndex, dk.diskDocs, dk.diskOrigin)
      bput == PutAll([keys |-> base.docKeys, val |-> base.docVal], kept)
      bnew == [index |-> [base.index EXCEPT !.xb = base.index.xb \o embs],
               origin |-> base.origin \o ids,
               docKeys |-> bput.keys, docVal |-> bput.val]
  IN  IF docs = <<>> \/ kept = <<>>
      THEN [store |-> mid, disk |-> dk, raised |-> FALSE, saving |-> FALSE, ids |-> <<>>]
      ELSE IF ~Addable(st.index, embs)
      THEN [store |-> mid, disk |-> dk, raised |-> TRUE, saving |-> FALSE, ids |-> <<>>]
      ELSE [store |-> new,
            disk |-> _save(bnew, dk.diskIndex, dk.diskDocs, dk.diskOrigin, outcome),
            raised |-> FALSE, saving |-> TRUE, ids |-> ids]

\* add_documents(docs): the store and the disk after the call, whether it
\* raised, whether _save was reached, and the ids it returned
add_documents(st, dk, docs, outcome) ==
  LET kept == WithEmbedding(docs)
      embs == [i \in 1..Len(kept) |-> kept[i].embedding]
      ids == [i \in 1..Len(kept) |-> kept[i].id]
      put == PutAll([keys |-> st.docKeys, val |-> st.docVal], kept)
      mid == [st EXCEPT !.docKeys = put.keys, !.docVal = put.val]
      new == [mid EXCEPT !.index.xb = st.index.xb \o embs, !.origin = st.origin \o ids]
  IN  IF docs = <<>> \/ kept = <<>>
      THEN [store |-> mid, disk |-> dk, raised |-> FALSE, saving |-> FALSE, ids |-> <<>>]
      ELSE IF ~Addable(st.index, embs)
      THEN [store |-> mid, disk |-> dk, raised |-> TRUE, saving |-> FALSE, ids |-> <<>>]
      ELSE [store |-> new,
            disk |-> _save(new, dk.diskIndex, dk.diskDocs, dk.diskOrigin, outcome),
            raised |-> FALSE, saving |-> TRUE, ids |-> ids]

\* the environment makes a call fail (the embedding gateway raises, a write
\* to disk raises) at most MaxFaults times in a behaviour
Inject(failing) ==
  IF failing THEN faults < MaxFaults /\ faults' = faults + 1 ELSE faults' = faults

SetStore(st) ==
  /\ index' = st.index
  /\ origin' = st.origin
  /\ docKeys' = st.docKeys
  /\ docVal' = st.docVal

SetDisk(dk) ==
  /\ diskIndex' = dk.diskIndex
  /\ diskDocs' = dk.diskDocs
  /\ diskOrigin' = dk.diskOrigin

\* what the last call did: the operation, the number of documents it was
\* given, the exception that left it ("none" when it returned), the ids it
\* returned and how its _save went ("none" when _save was not reached)
Result(op, n, err, ids, save) ==
  [op |-> op, n |-> n, err |-> err, ids |-> ids, save |-> save]

NoResult == Result("init", 0, "none", <<>>, "none")

\* an HTTP response: the route, the status code, the number of
\* document_ids of an IngestResponse or of retrieved_documents of a
\* QueryResponse, and what kind of text the answer of a QueryResponse is
Response(route, status, n, answer) ==
  [route |-> route, status |-> status, n |-> n, answer |-> answer]

NoResponse == Response("none", 0, 0, "none")

\* the script is not running: it holds no store
ClosedScript ==
  [pc |-> "closed", index |-> IndexFlatL2(0), origin |-> <<>>, docKeys |-> <<>>,
   docVal |-> <<>>]

\* a route handler that is not running
IdleTask ==
  [pc |-> "idle", route |-> "none", docs |-> <<>>, i |-> 0, q |-> 0, k |-> 0,
   hits |-> <<>>]

\* the event loop with no request in progress
IdleLoop == [running |-> "none", ingest |-> IdleTask, query |-> IdleTask]

SeqsUpTo(S, n) == UNION {[1..m -> S] : m \in 0..n}

\* a batch of n documents keeps the store within the model's bound
Fits(n) ==
  /\ ntotal(index) + n <= MaxDocs
  /\ Len(docKeys) + n <= MaxDocs

\* documents handed to VectorStore.add_documents by a direct caller
DocObjects(dim) ==
  [id : CallerIds, content : {0},
   embedding : {None, get_embeddings(0, dim), get_embeddings(0, dim + 1)}]

\* VectorStore.add_documents called directly
AddDocuments ==
  \E docs \in SeqsUpTo(DocObjects(dimension), MaxBatch), outcome \in SaveOutcomes :
    LET r == add_documents(Store, Disk, docs, outcome) IN
    /\ Fits(Len(docs))
    /\ r.saving \/ outcome = "ok"
    /\ Inject(outcome # "ok")
    /\ SetStore(r.store)
    /\ SetDisk(r.disk)
    /\ last' = Result("add", Len(docs), IF r.raised THEN "DimensionMismatch" ELSE "none",
                      r.ids, IF r.saving THEN outcome ELSE "none")
    /\ UNCHANGED <<apiVars, dimension, rawDocs, uuidNext>>

(***************************************************************************)
(* DocumentService                                                         *)
(***************************************************************************)
\* what a caller submits: a DocumentInput / a dict without 'id' (id = NoId)
\* or a dict / Document carrying its own id
DocInputs == [id : {NoId} \cup CallerIds, content : Contents]

\* number of documents among the first i that get a generated id
Generated(inputs, i) == Cardinality({j \in 1..i : inputs[j].id = NoId})

\* lines 42-59: every document without an id gets str(uuid.uuid4())
doc_objects(inputs, next) ==
  [i \in 1..Len(inputs) |->
     [id |-> IF inputs[i].id = NoId
             THEN Uuid(next + Generated(inputs, i) - 1)
             ELSE inputs[i].id,
      content |-> inputs[i].content,
      embedding |-> None]]

\* lines 62-67: one embedding per document, from its content
with_embeddings(docs, dim) ==
  [i \in 1..Len(docs) |-> [docs[i] EXCEPT !.embedding = get_embeddings(docs[i].content, dim)]]

\* the batches the model submits
Batches == SeqsUpTo(DocInputs, MaxBatch)

HasUuids(inputs) == uuidNext + Generated(inputs, Len(inputs)) <= MaxUuid + 1

IdsOf(docs, n) == {docs[i].id : i \in 1..n}

\* DocumentService.ingest_documents(inputs) when get_embeddings returns and
\* every reference copy is written
IngestReturns(inputs, outcome) ==
  LET objs == doc_objects(inputs, uuidNext)
      docs == with_embeddings(objs, dimension)
      r == add_documents(Store, Disk, docs, outcome)
  IN
  /\ Fits(Len(inputs))
  /\ HasUuids(inputs)
  /\ inputs = <<>> \/ ~r.saving => outcome = "ok"
  /\ Inject(outcome # "ok")
  /\ IF inputs = <<>>
     THEN /\ UNCHANGED <<storeVars, diskVars, rawDocs, uuidNext>>
          /\ last' = Result("ingest", 0, "none", <<>>, "none")
     ELSE /\ SetStore(r.store)
          /\ SetDisk(r.disk)
          /\ rawDocs' = rawDocs \cup IdsOf(docs, Len(docs))
          /\ uuidNext' = uuidNext + Generated(inputs, Len(inputs))
          /\ last' = Result("ingest", Len(inputs), IF r.raised THEN "DimensionMismatch" ELSE "none",
                            r.ids, IF r.saving THEN outcome ELSE "none")
  /\ UNCHANGED <<apiVars, dimension>>

\* a get_embeddings that fails while ingest_documents embeds and stores one
\* document at a time: the documents before the last are already stored
IngestEmbedsOneByOne(inputs) ==
  LET objs == doc_objects(inputs, uuidNext)
      docs == with_embeddings(objs, dimension)
      r == add_documents(Store, Disk, SubSeq(docs, 1, Len(docs) - 1), "ok")
  IN
  /\ inputs # <<>>
  /\ Fits(Len(inputs))
  /\ HasUuids(inputs)
  /\ Inject(TRUE)
  /\ SetStore(r.store)
  /\ SetDisk(r.disk)
  /\ last' = Result("ingest", Len(inputs), "EmbeddingError", <<>>, "none")
  /\ UNCHANGED <<apiVars, dimension, rawDocs, uuidNext>>

\* ingest_documents(inputs) on a non-empty batch when get_embeddings raises:
\* the call ends at line 63
IngestEmbeddingFails(inputs) ==
  /\ inputs # <<>>
  /\ Fits(Len(inputs))
  /\ HasUuids(inputs)
  /\ Inject(TRUE)
  /\ last' = Result("ingest", Len(inputs), "EmbeddingError", <<>>, "none")
  /\ UNCHANGED <<apiVars, dimension, storeVars, diskVars, rawDocs, uuidNext>>

\* ingest_documents when _save_raw_document raises on the j-th document:
\* the copies of the j-1 documents before it are written, and the call ends
\* before add_documents
IngestRawWriteFails(inputs, j) ==
  LET objs == doc_objects(inputs, uuidNext) IN
  /\ j <= Len(inputs)
  /\ Fits(Len(inputs))
  /\ HasUuids(inputs)
  /\ Inject(TRUE)
  /\ rawDocs' = rawDocs \cup IdsOf(objs, j - 1)
  /\ uuidNext' = uuidNext + Generated(inputs, Len(inputs))
  /\ last' = Result("ingest", Len(inputs), "RawWriteError", <<>>, "none")
  /\ UNCHANGED <<apiVars, dimension, storeVars, diskVars>>

IngestDocuments ==
  \/ \E inputs \in Batches, outcome \in SaveOutcomes : IngestReturns(inputs, outcome)
  \/ \E inputs \in Batches : IngestEmbeddingFails(inputs)
  \/ \E inputs \in Batches, j \in 1..MaxBatch : IngestRawWriteFails(inputs, j)

\* VectorStore.search(query_embedding, top_k): the (id, distance) pairs, or
\* the error it raises
search(st, q, top_k) ==
  LET kk == Min(top_k, ntotal(st.index))
      hits == index_search(st.index, q, kk)
  IN  IF ntotal(st.index) = 0 THEN [err |-> "none", results |-> <<>>]
      ELSE IF Len(q) # st.index.d \/ kk <= 0
      THEN [err |-> "AssertionError", results |-> <<>>]
      ELSE IF \E r \in 1..kk : hits[r].pos > Len(st.docKeys)
      THEN [err |-> "IndexError", results |-> <<>>]
      ELSE [err |-> "none",
            results |-> [r \in 1..kk |->
                           [id |-> st.docKeys[hits[r].pos], score |-> hits[r].dist]]]

\* VectorStore.get_document
get_document(st, id) == IF id \in DOMAIN st.docVal THEN <<st.docVal[id]>> ELSE <<>>

\* lines 111-115 of retrieve_documents: each hit's stored dict gets
\* 'similarity_score' assigned; the dict is the one held by the store
RECURSIVE Hydrate(_, _)
Hydrate(val, results) ==
  IF results = <<>> THEN val
  ELSE Hydrate(IF Head(results).id \in DOMAIN val
               THEN [val EXCEPT ![Head(results).id].score = Head(results).score]
               ELSE val,
               Tail(results))

\* the list retrieve_documents returns: the hydrated dicts, as the caller
\* sees them once the loop has finished
retrieved_docs(val, results) ==
  LET found == SelectSeq(results, LAMBDA h : h.id \in DOMAIN val)
      final == Hydrate(val, results)
  IN  [i \in 1..Len(found) |->
         [id |-> found[i].id, content |-> final[found[i].id].content,
          score |-> final[found[i].id].score]]

TopKs == {<<>>} \cup {<<n>> : n \in (-1)..MaxK}

\* top_k = top_k or settings.TOP_K_RETRIEVAL
effective_top_k(k) == IF k = <<>> \/ k = <<0>> THEN TOP_K_RETRIEVAL ELSE k[1]

\* DocumentService.retrieve_documents(query, top_k): the error it raises or
\* the documents it returns, and the documents dict after the call.
\* embedOk: get_embeddings returns
retrieve_documents(st, dim, q, k, embedOk) ==
  LET s == search(st, get_embeddings(q, dim), effective_top_k(k)) IN
  IF ~embedOk THEN [err |-> "EmbeddingError", docs |-> <<>>, docVal |-> st.docVal]
  ELSE IF s.err # "none" THEN [err |-> s.err, docs |-> <<>>, docVal |-> st.docVal]
  ELSE [err |-> "none", docs |-> retrieved_docs(st.docVal, s.results),
        docVal |-> Hydrate(st.docVal, s.results)]

\* RetrievalService.process_query up to the retrieval
Retrieve(q, k, embedOk) ==
  LET r == retrieve_documents(Store, dimension, q, k, embedOk) IN
  /\ Inject(~embedOk)
  /\ docVal' = r.docVal
  /\ last' = Result("query", 0, r.err, <<>>, "none")
  /\ UNCHANGED <<apiVars, dimension, index, origin, docKeys, diskVars, rawDocs, uuidNext>>

RetrieveDocuments ==
  \/ \E q \in Queries, k \in TopKs : Retrieve(q, k, TRUE)
  \/ \E q \in Queries : Retrieve(q, <<>>, FALSE)

\* a new VectorStore(dimension) on the same store_path (process restart)
Load ==
  /\ SetStore(_initialize_store(dimension, diskIndex, diskDocs, diskOrigin))
  /\ last' = Result("load", 0, "none", <<>>, "none")
  /\ UNCHANGED <<apiVars, dimension, diskVars, rawDocs, uuidNext, faults>>

Init ==
  /\ dimension \in Dims
  /\ index = IndexFlatL2(dimension)
  /\ origin = <<>>
  /\ docKeys = <<>>
  /\ docVal = <<>>
  /\ diskIndex = Missing(EmptyIndexArtifact)
  /\ diskDocs = Missing(<<>>)
  /\ diskOrigin = <<>>
  /\ rawDocs = {}
  /\ uuidNext = 1
  /\ faults = 0
  /\ last = NoResult
  /\ loop = IdleLoop
  /\ response = NoResponse
  /\ script = ClosedScript

Next ==
  \/ AddDocuments
  \/ IngestDocuments
  \/ RetrieveDocuments
  \/ Load

Spec == Init /\ [][Next]_vars
(***************************************************************************)
(* LLMService                                                              *)
(***************************************************************************)
\* how the completion call goes: there is no API key, the upstream call
\* raises, or it returns a text
LLMOutcomes == {"no_api_key", "upstream_fails", "ok"}

\* a generate_answer without the try/except around the completion call
generate_answer_unguarded(context_docs, llm) ==
  CASE llm = "no_api_key" ->
         [raised |-> FALSE, answer |-> "Error: OpenAI API key not configured"]
    [] llm = "upstream_fails" -> [raised |-> TRUE, answer |-> "none"]
    [] OTHER -> [raised |-> FALSE, answer |-> "generated"]

\* LLMService.generate_answer: whether it raises, and the kind of text it
\* returns
generate_answer(context_docs, llm) ==
  CASE llm = "no_api_key" ->
         [raised |-> FALSE, answer |-> "Error: OpenAI API key not configured"]
    [] llm = "upstream_fails" ->
         [raised |-> FALSE, answer |-> "Error generating answer"]
    [] OTHER -> [raised |-> FALSE, answer |-> "generated"]

(***************************************************************************)
(* The route handlers, step by step, on the event loop of the API process  *)
(***************************************************************************)
\* whether a route handler gives the event loop up at pc: the handlers are
\* coroutines whose bodies hold no await, the services are called
\* synchronously
Awaits(pc) == FALSE

\* the event loop lets coroutine c take its next step
Scheduled(c) == loop.running \in {"none", c}

\* the event loop after a step of coroutine c that leaves its locals as task
Resume(c, task) ==
  loop' = [loop EXCEPT ![c] = task,
                       !.running = IF task.pc = "idle" \/ Awaits(task.pc)
                                   THEN "none" ELSE c]

\* the request bodies of the two ingestion routes: /ingest takes
\* DocumentInput objects, which carry no id, /batch-ingest takes dicts
IngestRoutes == {"ingest", "batch-ingest"}
RouteInputs(route) ==
  IF route = "ingest" THEN SeqsUpTo([id : {NoId}, content : Contents], MaxBatch)
  ELSE Batches

\* the text of a query: a string over a blank and a letter
QueryTexts == SeqsUpTo({" ", "q"}, MaxText)

\* a strip that removes nothing
no_strip(text) == text

\* str.strip: the text without its leading and trailing whitespace
RECURSIVE strip(_)
strip(text) ==
  IF text = <<>> THEN <<>>
  ELSE IF Head(text) = " " THEN strip(Tail(text))
  ELSE IF text[Len(text)] = " " THEN strip(SubSeq(text, 1, Len(text) - 1))
  ELSE text

\* the content the embedding model sees in a query text
TextCoord(text) == Len(SelectSeq(text, LAMBDA ch : ch # " ")) % Cardinality(Queries)

\* POST /ingest or /batch-ingest without documents: HTTP 400 before any
\* service is called
HandlerIngestRejects(route, inputs) ==
  /\ Scheduled("ingest") /\ loop.ingest.pc = "idle"
  /\ inputs = <<>>
  /\ response' = Response(route, 400, 0, "none")
  /\ Resume("ingest", IdleTask)
  /\ UNCHANGED <<script, dimension, storeVars, diskVars, rawDocs, uuidNext, faults, last>>

\* POST /ingest or /batch-ingest, lines 42-71 of ingest_documents: ids,
\* embeddings and reference copies
HandlerIngestBegins(route, inputs) ==
  LET objs == doc_objects(inputs, uuidNext) IN
  /\ Scheduled("ingest") /\ loop.ingest.pc = "idle"
  /\ inputs # <<>>
  /\ Fits(Len(inputs))
  /\ HasUuids(inputs)
  /\ rawDocs' = rawDocs \cup IdsOf(objs, Len(objs))
  /\ uuidNext' = uuidNext + Generated(inputs, Len(inputs))
  /\ Resume("ingest", [IdleTask EXCEPT !.pc = "put", !.i = 1, !.route = route,
                                       !.docs = with_embeddings(objs, dimension)])
  /\ UNCHANGED <<script, dimension, storeVars, diskVars, faults, last, response>>

\* an ingestion route when get_embeddings raises: the handler ends with a
\* server error
HandlerIngestEmbeddingFails(route, inputs) ==
  /\ Scheduled("ingest") /\ loop.ingest.pc = "idle"
  /\ inputs # <<>>
  /\ Fits(Len(inputs))
  /\ HasUuids(inputs)
  /\ Inject(TRUE)
  /\ response' = Response(route, 500, 0, "none")
  /\ Resume("ingest", IdleTask)
  /\ UNCHANGED <<script, last, dimension, storeVars, diskVars, rawDocs, uuidNext>>

\* an ingestion route when _save_raw_document raises on the j-th document
HandlerIngestRawWriteFails(route, inputs, j) ==
  LET objs == doc_objects(inputs, uuidNext) IN
  /\ Scheduled("ingest") /\ loop.ingest.pc = "idle"
  /\ j <= Len(inputs)
  /\ Fits(Len(inputs))
  /\ HasUuids(inputs)
  /\ Inject(TRUE)
  /\ rawDocs' = rawDocs \cup IdsOf(objs, j - 1)
  /\ uuidNext' = uuidNext + Generated(inputs, Len(inputs))
  /\ response' = Response(route, 500, 0, "none")
  /\ Resume("ingest", IdleTask)
  /\ UNCHANGED <<script, last, dimension, storeVars, diskVars>>

\* one turn of the loop of add_documents: self.documents[doc.id] = doc_copy
HandlerIngestPuts ==
  LET t == loop.ingest
      put == DictPut([keys |-> docKeys, val |-> docVal], t.docs[t.i].id,
                     doc_copy(t.docs[t.i]))
  IN
  /\ Scheduled("ingest") /\ t.pc = "put"
  /\ docKeys' = put.keys
  /\ docVal' = put.val
  /\ Resume("ingest", [t EXCEPT !.i = t.i + 1,
                                !.pc = IF t.i = Len(t.docs) THEN "index_add" ELSE "put"])
  /\ UNCHANGED <<script, dimension, index, origin, diskVars, rawDocs, uuidNext, faults,
                 last, response>>

\* self.index.add(embeddings_array)
HandlerIngestAddsToIndex ==
  LET t == loop.ingest IN
  /\ Scheduled("ingest") /\ t.pc = "index_add"
  /\ index' = [index EXCEPT !.xb = @ \o [i \in 1..Len(t.docs) |-> t.docs[i].embedding]]
  /\ origin' = origin \o [i \in 1..Len(t.docs) |-> t.docs[i].id]
  /\ Resume("ingest", [t EXCEPT !.pc = "save"])
  /\ UNCHANGED <<script, dimension, docKeys, docVal, diskVars, rawDocs, uuidNext, faults,
                 last, response>>

\* self._save(), the return of the ids and the IngestResponse
HandlerIngestSaves(outcome) ==
  LET t == loop.ingest
      ids == [i \in 1..Len(t.docs) |-> t.docs[i].id]
  IN
  /\ Scheduled("ingest") /\ t.pc = "save"
  /\ Inject(outcome # "ok")
  /\ SetDisk(_save(Store, diskIndex, diskDocs, diskOrigin, outcome))
  /\ response' = Response(t.route, 200, Len(ids), "none")
  /\ Resume("ingest", IdleTask)
  /\ UNCHANGED <<script, last, dimension, storeVars, rawDocs, uuidNext>>

\* POST /query with a blank query text: HTTP 400 before any service is
\* called
HandlerQueryRejects(text) ==
  /\ Scheduled("query") /\ loop.query.pc = "idle"
  /\ strip(text) = <<>>
  /\ response' = Response("query", 400, 0, "none")
  /\ Resume("query", IdleTask)
  /\ UNCHANGED <<script, dimension, storeVars, diskVars, rawDocs, uuidNext, faults, last>>

\* POST /query with a query text that is not blank, up to the embedding of
\* the query
HandlerQueryBegins(text, k) ==
  /\ Scheduled("query") /\ loop.query.pc = "idle"
  /\ strip(text) # <<>>
  /\ Resume("query", [IdleTask EXCEPT !.pc = "search", !.route = "query",
                                      !.q = TextCoord(text),
                                      !.k = effective_top_k(k)])
  /\ UNCHANGED <<script, dimension, storeVars, diskVars, rawDocs, uuidNext, faults,
                 last, response>>

\* POST /query when get_embeddings raises
HandlerQueryEmbeddingFails(text) ==
  /\ Scheduled("query") /\ loop.query.pc = "idle"
  /\ strip(text) # <<>>
  /\ Inject(TRUE)
  /\ response' = Response("query", 500, 0, "none")
  /\ Resume("query", IdleTask)
  /\ UNCHANGED <<script, last, dimension, storeVars, diskVars, rawDocs, uuidNext>>

\* self.vector_store.search(query_embedding, top_k): an exception ends the
\* handler with a server error
HandlerQuerySearches ==
  LET t == loop.query
      s == search(Store, get_embeddings(t.q, dimension), t.k)
  IN
  /\ Scheduled("query") /\ t.pc = "search"
  /\ IF s.err # "none"
     THEN /\ response' = Response("query", 500, 0, "none")
          /\ Resume("query", IdleTask)
     ELSE /\ Resume("query", [t EXCEPT !.hits = s.results, !.i = 1,
                                       !.pc = IF s.results = <<>> THEN "answer"
                                              ELSE "hydrate"])
          /\ UNCHANGED response
  /\ UNCHANGED <<script, last, dimension, storeVars, diskVars, rawDocs, uuidNext, faults>>

\* one turn of the loop of retrieve_documents: get_document and the
\* assignment of 'similarity_score'
HandlerQueryHydrates ==
  LET t == loop.query IN
  /\ Scheduled("query") /\ t.pc = "hydrate"
  /\ docVal' = Hydrate(docVal, <<t.hits[t.i]>>)
  /\ Resume("query", [t EXCEPT !.i = t.i + 1,
                               !.pc = IF t.i = Len(t.hits) THEN "answer" ELSE "hydrate"])
  /\ UNCHANGED <<script, dimension, index, origin, docKeys, diskVars, rawDocs, uuidNext,
                 faults, last, response>>

\* lines 36-59 of process_query: the RetrievedDocument models are built
\* from the retrieved dicts, then generate_answer is called; the
\* QueryResponse carries both, and an exception of generate_answer leaves
\* process_query
QueryResponse(context_docs, llm) ==
  LET doc_models == [i \in 1..Len(context_docs) |->
                       [id |-> context_docs[i].id,
                        content |-> context_docs[i].content,
                        similarity_score |-> context_docs[i].score]]
      a == generate_answer(context_docs, llm)
  IN  [raised |-> a.raised, answer |-> a.answer,
       retrieved_documents |-> IF a.raised THEN <<>> ELSE doc_models]

\* the RetrievedDocument models, generate_answer and the QueryResponse
HandlerQueryAnswers(llm) ==
  LET t == loop.query
      r == QueryResponse(retrieved_docs(docVal, t.hits), llm)
  IN
  /\ Scheduled("query") /\ t.pc = "answer"
  /\ Inject(llm = "upstream_fails")
  /\ response' = IF r.raised THEN Response("query", 500, 0, "none")
                 ELSE Response("query", 200, Len(r.retrieved_documents), r.answer)
  /\ Resume("query", IdleTask)
  /\ UNCHANGED <<script, last, dimension, storeVars, diskVars, rawDocs, uuidNext>>

HandlerIngest ==
  \/ \E route \in IngestRoutes : \E inputs \in RouteInputs(route) :
       HandlerIngestRejects(route, inputs)
  \/ \E route \in IngestRoutes : \E inputs \in RouteInputs(route) :
       HandlerIngestBegins(route, inputs)
  \/ \E route \in IngestRoutes : \E inputs \in RouteInputs(route) :
       HandlerIngestEmbeddingFails(route, inputs)
  \/ \E route \in IngestRoutes : \E inputs \in RouteInputs(route), j \in 1..MaxBatch :
       HandlerIngestRawWriteFails(route, inputs, j)
  \/ HandlerIngestPuts
  \/ HandlerIngestAddsToIndex
  \/ \E outcome \in SaveOutcomes : HandlerIngestSaves(outcome)

HandlerQuery ==
  \/ \E text \in QueryTexts : HandlerQueryRejects(text)
  \/ \E text \in QueryTexts, k \in TopKs : HandlerQueryBegins(text, k)
  \/ \E text \in QueryTexts : HandlerQueryEmbeddingFails(text)
  \/ HandlerQuerySearches
  \/ HandlerQueryHydrates
  \/ \E llm \in LLMOutcomes : HandlerQueryAnswers(llm)

NextLoop ==
  \/ HandlerIngest
  \/ HandlerQuery

SpecLoop == Init /\ [][NextLoop]_vars
(***************************************************************************)
(* A run of scripts/load_pubmed_data.py next to the API process: its own   *)
(* VectorStore on the same store_path                                      *)
(***************************************************************************)
\* get_pubmed_data: a fixed list of dicts that carry their own, distinct ids
ScriptBatches ==
  {inputs \in SeqsUpTo([id : CallerIds, content : {0}], MaxBatch) :
     /\ inputs # <<>>
     /\ \A i \in 1..Len(inputs), j \in 1..Len(inputs) :
          i # j => inputs[i].id # inputs[j].id}

ScriptStore ==
  [index |-> script.index, origin |-> script.origin, docKeys |-> script.docKeys,
   docVal |-> script.docVal]

\* the script after a step: where it is and the store it holds
Script(pc, st) ==
  [pc |-> pc, index |-> st.index, origin |-> st.origin, docKeys |-> st.docKeys,
   docVal |-> st.docVal]

\* main, line 106: get_retrieval_service builds a VectorStore, which loads
\* the artifacts that are on disk at that moment
ScriptOpens ==
  /\ script.pc = "closed"
  /\ script' = Script("open", _initialize_store(dimension, diskIndex, diskDocs, diskOrigin))
  /\ UNCHANGED <<dimension, storeVars, diskVars, rawDocs, uuidNext, faults, last,
                 loop, response>>

\* main, line 114, when ingest_documents returns: the batch is added to the
\* script's store and that store is saved; then the process ends
ScriptIngests(inputs, outcome) ==
  LET docs == with_embeddings(doc_objects(inputs, uuidNext), dimension)
      r == add_documents(ScriptStore, Disk, docs, outcome)
  IN
  /\ script.pc = "open"
  /\ ntotal(script.index) + Len(inputs) <= MaxDocs
  /\ Len(script.docKeys) + Len(inputs) <= MaxDocs
  /\ Inject(outcome # "ok")
  /\ SetDisk(r.disk)
  /\ rawDocs' = rawDocs \cup IdsOf(docs, Len(docs))
  /\ script' = ClosedScript
  /\ UNCHANGED <<dimension, storeVars, uuidNext, last, loop, response>>

\* main, line 114, when ingest_documents raises before add_documents:
\* get_embeddings raises (j = 0), or _save_raw_document raises on the j-th
\* document after the copies before it were written; the process ends with
\* the exception
ScriptIngestFails(inputs, j) ==
  LET objs == doc_objects(inputs, uuidNext) IN
  /\ script.pc = "open"
  /\ j <= Len(inputs)
  /\ Inject(TRUE)
  /\ rawDocs' = rawDocs \cup IdsOf(objs, j - 1)
  /\ script' = ClosedScript
  /\ UNCHANGED <<dimension, storeVars, diskVars, uuidNext, last, loop, response>>

LoadPubmedData ==
  \/ ScriptOpens
  \/ \E inputs \in ScriptBatches, outcome \in SaveOutcomes : ScriptIngests(inputs, outcome)
  \/ \E inputs \in ScriptBatches, j \in 0..MaxBatch : ScriptIngestFails(inputs, j)

NextInstances ==
  \/ IngestDocuments
  \/ LoadPubmedData

SpecInstances == Init /\ [][NextInstances]_vars

(***************************************************************************)
(* Restarts of the API process under a changed embedding model             *)
(***************************************************************************)
\* the dimensions settings.EMBEDDING_MODEL can give the embedding service
ModelDims == Dims \cup {d + 1 : d \in Dims}

\* the process starts again with an embedding service of dimension dim:
\* get_vector_store builds VectorStore(dimension=dim) on the same store_path
Restart(dim) ==
  /\ dimension' = dim
  /\ SetStore(_initialize_store(dim, diskIndex, diskDocs, diskOrigin))
  /\ last' = Result("load", 0, "none", <<>>, "none")
  /\ UNCHANGED <<apiVars, diskVars, rawDocs, uuidNext, faults>>

NextReconfigure ==
  \/ IngestDocuments
  \/ RetrieveDocuments
  \/ \E dim \in ModelDims : Restart(dim)

SpecReconfigure == Init /\ [][NextReconfigure]_vars

(***************************************************************************)
(* Properties                                                              *)
(***************************************************************************)
IsInsert(r) == r.op \in {"add", "ingest"}
SaveFailed(r) == r.save \notin {"ok", "none"}
Loaded == _initialize_store(dimension, diskIndex, diskDocs, diskOrigin)
QueryVectors == {get_embeddings(c, d) : c \in Contents, d \in {dimension, dimension + 1}}

\* C1: for every ordinal i < index.ntotal, the i-th key of the documents
\* mapping is the id of the document whose embedding was the i-th vector
\* inserted into the index.
C1_PositionalInvariant ==
  \A i \in 1..ntotal(index) : i <= Len(docKeys) /\ docKeys[i] = origin[i]

\* C2: between operations the number of vectors in the index equals the
\* number of entries of the documents mapping.
C2_PairingInvariant == ntotal(index) = Len(docKeys)

\* C3: right after an insertion whose _save succeeded, a new VectorStore on
\* the same store_path answers every search (any query vector, any k) with
\* the same (id, distance) sequence as the store that saved, and returns the
\* same metadata for every id.
C3_SaveLoadRoundTrip ==
  (IsInsert(last) /\ last.save = "ok") =>
    /\ \A q \in QueryVectors, k \in (-1)..(MaxDocs + 1) :
         search(Loaded, q, k) = search(Store, q, k)
    /\ \A id \in CallerIds \cup Uuids \cup {NoId} :
         get_document(Loaded, id) = get_document(Store, id)

C3_Witness ==
  /\ IsInsert(last) /\ last.save = "ok"
  /\ ntotal(index) = 2 /\ Len(docKeys) = 2
  /\ index.xb[1] # index.xb[2]
  /\ \E id \in DOMAIN docVal : docVal[id].score # NoScore

\* C4: for a store holding n documents and a query with k >= 1,
\* retrieve_documents returns the min(k, n) documents nearest to the query,
\* nearest first, each with the distance between the query and its own
\* embedding as similarity_score.
C4_ExactKnn ==
  \A q \in Queries, k \in 1..MaxK :
    LET r == retrieve_documents(Store, dimension, q, <<k>>, TRUE)
        qe == get_embeddings(q, dimension)
        own(c) == L2(get_embeddings(c, dimension), qe)
        returned == {r.docs[i].id : i \in 1..Len(r.docs)}
    IN  /\ r.err = "none"
        /\ Len(r.docs) = Min(k, Len(docKeys))
        /\ \A i \in 1..Len(r.docs) :
             /\ r.docs[i].id \in DOMAIN docVal
             /\ r.docs[i].content = docVal[r.docs[i].id].content
             /\ r.docs[i].score = own(r.docs[i].content)
        /\ \A i \in 1..(Len(r.docs) - 1) : r.docs[i].score <= r.docs[i + 1].score
        /\ \A i \in 1..Len(r.docs), j \in 1..Len(r.docs) :
             i # j => r.docs[i].id # r.docs[j].id
        /\ \A id \in (DOMAIN docVal) \ returned, i \in 1..Len(r.docs) :
             r.docs[i].score <= own(docVal[id].content)

\* C5: for any query and any requested k, retrieve_documents returns at
\* most min(k, total documents inserted) documents, and none from a store
\* with zero vectors.
C5_ResultCountBound ==
  \A q \in Queries, k \in (-1)..MaxK :
    LET r == retrieve_documents(Store, dimension, q, <<k>>, TRUE) IN
    /\ Len(r.docs) <= Min(k, ntotal(index)) \/ Len(r.docs) = 0
    /\ ntotal(index) = 0 => r.docs = <<>>

\* C6: a query changes no Document Store entry: get_document returns after
\* the query what it returned before it.
C6_GetIdempotent == [][last'.op = "query" => docVal' = docVal]_vars

\* C7: when get_embeddings fails for a batch passed to ingest_documents,
\* the index, the documents mapping and what is persisted are exactly as
\* before the call.
C7_NoPartialIngestion ==
  [][(last'.op = "ingest" /\ last'.err = "EmbeddingError") =>
       UNCHANGED <<index, origin, docKeys, docVal, diskIndex, diskDocs, rawDocs>>]_vars

C7_Witness ==
  /\ last.op = "ingest" /\ last.err = "EmbeddingError"
  /\ ntotal(index) >= 1
  /\ diskDocs.state = "ok"

\* C8: ingest_documents([]) and add_documents([]) return [] without an
\* error, without reaching _save, and leave the index, the documents
\* mapping and everything on disk unchanged.
C8_EmptyIngestionNoOp ==
  [][(IsInsert(last') /\ last'.n = 0) =>
       /\ last'.ids = <<>> /\ last'.err = "none" /\ last'.save = "none"
       /\ UNCHANGED <<index, origin, docKeys, docVal, diskIndex, diskDocs, rawDocs>>]_vars

C8_Witness ==
  /\ IsInsert(last) /\ last.n = 0
  /\ ntotal(index) >= 1
  /\ diskIndex.state # "ok"

\* C9: a VectorStore constructed where an artifact is missing or does not
\* deserialize is constructed without an error and holds zero vectors and
\* zero documents.
C9_FailOpenLoad ==
  (last.op = "load" /\ (diskIndex.state # "ok" \/ diskDocs.state # "ok")) =>
    /\ last.err = "none"
    /\ ntotal(index) = 0 /\ index.d = dimension
    /\ docKeys = <<>> /\ docVal = <<>>

C9_Witness ==
  /\ last.op = "load"
  /\ diskIndex.state = "ok" /\ diskIndex.data.ntotal >= 1
  /\ diskDocs.state # "ok"

\* C10: when a write fails inside _save, add_documents still returns the
\* ids of the batch without raising, and the in-memory index and documents
\* mapping hold the batch.
C10_SaveFailureKeepsMemory ==
  [][(IsInsert(last') /\ SaveFailed(last')) =>
       /\ last'.err = "none"
       /\ last'.ids # <<>>
       /\ origin' = origin \o last'.ids
       /\ ntotal(index') = ntotal(index) + Len(last'.ids)
       /\ \A i \in 1..Len(last'.ids) :
            /\ get_document(Store', last'.ids[i]) # <<>>
            /\ docVal'[last'.ids[i]].score = NoScore]_vars

C10_Witness ==
  /\ IsInsert(last) /\ SaveFailed(last)
  /\ Len(last.ids) = 2
  /\ diskIndex.state = "missing"

\* C11: an ingestion of m >= 1 documents that returns takes a store of size
\* s to size s + m: the ordinals below s resolve to the ids they resolved to
\* before, and the ordinals s..s+m-1 resolve to the batch's documents in
\* input order.
C11_AppendSemantics ==
  [][(last'.op = "ingest" /\ last'.err = "none" /\ last'.n >= 1) =>
       /\ Len(last'.ids) = last'.n
       /\ ntotal(index') = ntotal(index) + last'.n
       /\ Len(docKeys') = Len(docKeys) + last'.n
       /\ \A i \in 1..Len(docKeys) : docKeys'[i] = docKeys[i]
       /\ \A j \in 1..last'.n : docKeys'[Len(docKeys) + j] = last'.ids[j]]_vars

\* C12: a query that runs on the event loop of the API process, between its
\* search and the end of its hydration, sees an index that holds exactly as
\* many vectors as the documents mapping has entries.
C12_ReaderWriterExclusion ==
  loop.query.pc \in {"search", "hydrate"} => ntotal(index) = Len(docKeys)

\* C13: ingest_documents on a non-empty batch, when the embedding gateway
\* and the reference copies do not fail, returns without an error one id
\* per submitted document, in input order, and get_document on the i-th
\* returned id gives the content submitted at position i.
C13_IngestReturnsIds ==
  [][\A inputs \in Batches, outcome \in SaveOutcomes :
       (inputs # <<>> /\ IngestReturns(inputs, outcome)) =>
         /\ last'.err = "none"
         /\ Len(last'.ids) = Len(inputs)
         /\ \A i \in 1..Len(inputs) :
              /\ inputs[i].id # NoId => last'.ids[i] = inputs[i].id
              /\ get_document(Store', last'.ids[i]) # <<>>
              /\ get_document(Store', last'.ids[i])[1].content = inputs[i].content]_vars

\* C14: in every state reached through the ingestion routes in which the
\* documents mapping holds n >= 1 documents, a /query handler that searches
\* with k >= 1 ends with a 200 response carrying exactly min(k, n)
\* retrieved documents, whatever the answer generation does.
C14_QueryReturnsRequested ==
  [][(loop.query.pc \in {"search", "hydrate", "answer"} /\ loop'.query.pc = "idle"
      /\ loop.query.k >= 1 /\ Len(docKeys) >= 1) =>
       /\ response'.route = "query"
       /\ response'.status = 200
       /\ response'.n = Min(loop.query.k, Len(docKeys))]_vars

ErrorTexts == {"Error: OpenAI API key not configured", "Error generating answer"}

\* C15: generate_answer does not raise, whether the context is empty, the
\* API key is missing or the completion call fails; without a key and on a
\* failed call it returns an error text, and the /query handler still ends
\* with a QueryResponse whose retrieved_documents are the documents that
\* were retrieved, in their order.
C15_AnswerDegradesGracefully ==
  [][\A llm \in LLMOutcomes :
       (loop.query.pc = "answer" /\ HandlerQueryAnswers(llm)) =>
         LET retrieved == retrieved_docs(docVal, loop.query.hits)
             r == QueryResponse(retrieved, llm)
         IN  /\ ~generate_answer(retrieved, llm).raised
             /\ llm # "ok" => generate_answer(retrieved, llm).answer \in ErrorTexts
             /\ response'.status = 200
             /\ response'.answer = generate_answer(retrieved, llm).answer
             /\ response'.n = Len(retrieved)
             /\ Len(r.retrieved_documents) = Len(retrieved)
             /\ \A i \in 1..Len(retrieved) :
                  /\ r.retrieved_documents[i].id = retrieved[i].id
                  /\ r.retrieved_documents[i].content = retrieved[i].content
                  /\ r.retrieved_documents[i].similarity_score = retrieved[i].score]_vars

C15_Witness ==
  /\ response.route = "query" /\ response.status = 200
  /\ response.answer = "Error generating answer"
  /\ response.n = 2

\* C16: a /query handler that got past the check of the query text ends
\* with a QueryResponse (status 200) whatever fails on its way: the
\* embedding of the query, the search, the hydration or the answer
\* generation; no exception leaves process_query.
C16_QueryFailuresResolve ==
  [][((\/ \E text \in QueryTexts : HandlerQueryEmbeddingFails(text)
       \/ HandlerQuerySearches
       \/ \E llm \in LLMOutcomes : HandlerQueryAnswers(llm))
      /\ loop'.query.pc = "idle") =>
       /\ response'.route = "query"
       /\ response'.status = 200]_vars

\* C17: retrieve_documents gives what VectorStore.search gives for
\* settings.TOP_K_RETRIEVAL when top_k is None, and for every integer
\* top_k, 0 included, what search gives for that very top_k.
C17_DefaultK ==
  \A q \in Queries, k \in TopKs :
    LET passed == IF k = <<>> THEN TOP_K_RETRIEVAL ELSE k[1]
        s == search(Store, get_embeddings(q, dimension), passed)
        r == retrieve_documents(Store, dimension, q, k, TRUE)
    IN  /\ r.err = s.err
        /\ s.err = "none" => r.docs = retrieved_docs(docVal, s.results)

\* a text that is empty or holds only whitespace
IsBlank(text) == \A i \in 1..Len(text) : text[i] = " "

\* the request was answered with HTTP 400 and no service was called: no
\* handler step was taken into the services, no call was made that could
\* fail, and the store, the artifacts and the reference copies are as before
Rejected(route) ==
  /\ response' = Response(route, 400, 0, "none")
  /\ loop' = loop
  /\ UNCHANGED <<index, origin, docKeys, docVal, diskIndex, diskDocs, diskOrigin,
                 rawDocs, uuidNext, faults>>

\* C18: an /ingest or /batch-ingest request without documents, and a
\* /query request whose text is empty or only whitespace, is answered with
\* HTTP 400 before any service is called; the index, the documents mapping
\* and the artifacts on disk stay as they were.
C18_ClientInputErrors ==
  [][/\ \A route \in IngestRoutes, j \in 1..MaxBatch :
          (\/ HandlerIngestRejects(route, <<>>)
           \/ HandlerIngestBegins(route, <<>>)
           \/ HandlerIngestEmbeddingFails(route, <<>>)
           \/ HandlerIngestRawWriteFails(route, <<>>, j)) => Rejected(route)
     /\ \A text \in QueryTexts, k \in TopKs :
          (IsBlank(text) /\ (\/ HandlerQueryRejects(text)
                             \/ HandlerQueryBegins(text, k)
                             \/ HandlerQueryEmbeddingFails(text))) => Rejected("query")]_vars

C18_Witness ==
  /\ response.route = "query" /\ response.status = 400
  /\ ntotal(index) >= 1
  /\ diskDocs.state = "ok"

\* C19: in a state where the index and the documents mapping are out of
\* positional correspondence, a search (any query vector, any k) either
\* raises or returns only pairs (id, distance) in which id is the id of the
\* document whose vector is at that distance.
C19_FailLoudly ==
  (~C1_PositionalInvariant \/ ~C2_PairingInvariant) =>
    \A q \in QueryVectors, k \in (-1)..(MaxDocs + 1) :
      LET s == search(Store, q, k)
          hits == index_search(index, q, Min(k, ntotal(index)))
      IN  s.err = "none" =>
            \A r \in 1..Len(s.results) :
              /\ s.results[r].id = origin[hits[r].pos]
              /\ s.results[r].score = hits[r].dist

\* C20: whenever both artifacts exist on disk and deserialize, they hold the
\* same number of entries in the same ordinal correspondence: a
\* VectorStore loaded from them satisfies the pairing and the positional
\* invariant.
C20_OnDiskPairConsistency ==
  (diskIndex.state = "ok" /\ diskDocs.state = "ok") =>
    /\ ntotal(Loaded.index) = Len(Loaded.docKeys)
    /\ \A i \in 1..ntotal(Loaded.index) :
         i <= Len(Loaded.docKeys) /\ Loaded.docKeys[i] = Loaded.origin[i]

\* C21: an insertion that returns keeps every key the documents mapping held
\* and holds the keys of its batch, whether its _save or earlier ones failed;
\* and when its _save succeeds, a VectorStore loaded from the artifacts is
\* equal to the in-memory store, so it holds the batches whose own save
\* failed as well.
C21_PersistenceCatchesUp ==
  [][(IsInsert(last') /\ last'.err = "none") =>
       /\ Range(docKeys) \subseteq Range(docKeys')
       /\ Range(last'.ids) \subseteq Range(docKeys')
       /\ ntotal(index') = ntotal(index) + Len(last'.ids)
       /\ last'.save = "ok" =>
            /\ Loaded'.index = index'
            /\ Loaded'.docKeys = docKeys'
            /\ Loaded'.docVal = docVal']_vars

\* the store holds two vectors, only the last of which arrived with the
\* insertion whose save has just succeeded, and the disk holds both
C21_Witness ==
  /\ IsInsert(last) /\ last.save = "ok" /\ Len(last.ids) = 1
  /\ faults = 1
  /\ ntotal(index) = 2 /\ Len(docKeys) = 2
  /\ diskIndex.state = "ok" /\ diskIndex.data.ntotal = 2
  /\ diskDocs.state = "ok" /\ Len(diskDocs.data) = 2

\* C22: an add_documents that raises because an embedding of the batch does
\* not have the index's dimension leaves the index, the documents mapping
\* and the artifacts on disk as they were before the call.
C22_DimensionMismatchAtomic ==
  [][(IsInsert(last') /\ last'.err = "DimensionMismatch") =>
       /\ last'.ids = <<>>
       /\ UNCHANGED <<index, origin, docKeys, docVal, diskIndex, diskDocs>>]_vars

\* C23: with the API process and the script open on the same store_path, a
\* save never discards what is persisted: the ids in the documents artifact
\* and the number of vectors in the index artifact do not shrink from one
\* readable state of the artifacts to the next.
C23_NoLostUpdate ==
  [][(/\ diskDocs.state = "ok" /\ diskDocs'.state = "ok"
      /\ diskIndex.state = "ok" /\ diskIndex'.state = "ok") =>
       /\ Range(pickle_load_keys(diskDocs.data)) \subseteq
            Range(pickle_load_keys(diskDocs'.data))
       /\ diskIndex.data.ntotal <= diskIndex'.data.ntotal]_vars

\* C24: in every reachable state, also after a restart that loaded the
\* persisted artifacts, the dimension of the live index is the dimension
\* the VectorStore was constructed with.
C24_DimensionFixed == index.d = dimension
====
